---- MODULE Spec2Model ----
(***************************************************************************)
(* A model of the sharded LRU cache of cache.cc: the murmur-like Hash, the *)
(* HandleTable (bucket array with next_hash chains), the LRUCacheImpl      *)
(* shard (circular doubly linked recency list, usage_ counter, reference   *)
(* counts) and the ShardedLRUCache that routes keys to 16 shards.          *)
(*                                                                         *)
(* Entries live in `heap`, indexed by allocation order; a pointer is an    *)
(* index into heap, NULL is 0, and inside a shard the address of the dummy *)
(* list head lru_ is LruHead.                                              *)
(***************************************************************************)
EXTENDS Integers, Sequences, FiniteSets, TLC

(***************************************************************************)
(* Bounds of the model.                                                    *)
(***************************************************************************)
\* number of entries ever allocated by Insert, for the callers that keep
\* handles
MaxEntries == 3
\* number of handles callers hold at the same time
MaxHandles == 2
\* number of entries ever allocated by Insert, for the calls of the test fixture
MaxTestEntries == 3
\* number of threads that call the cache at the same time
MaxThreads == 2
\* number of entries ever allocated by Insert, for the calls of the threads
MaxThreadEntries == 2
\* number of handles callers hold at the same time, in the life of a cache
MaxLifeHandles == 1
\* number of calls of NewId
MaxIds == 4
\* number of LRUHandles made for the HandleTable taken by itself
MaxTableHandles == 6

(***************************************************************************)
(* uint32_t arithmetic.  A uint32_t is a pair <<hi, lo>> of 16-bit halves, *)
(* so that no intermediate result leaves the range of the checker's        *)
(* integers.                                                               *)
(***************************************************************************)
Pow2(n) == 2 ^ n

U32(hi, lo) == <<hi, lo>>

\* a small non-negative integer as a uint32_t
ToU32(n) == <<(n \div 65536) % 65536, n % 65536>>

RECURSIVE Xor16(_, _)
Xor16(a, b) ==
    IF a = 0 THEN b
    ELSE IF b = 0 THEN a
    ELSE ((a + b) % 2) + 2 * Xor16(a \div 2, b \div 2)

RECURSIVE And16(_, _)
And16(a, b) ==
    IF a = 0 \/ b = 0 THEN 0
    ELSE ((a % 2) * (b % 2)) + 2 * And16(a \div 2, b \div 2)

Xor32(a, b) == <<Xor16(a[1], b[1]), Xor16(a[2], b[2])>>

Add32(a, b) ==
    LET lo == a[2] + b[2]
    IN  <<(a[1] + b[1] + (lo \div 65536)) % 65536, lo % 65536>>

\* (x * y) mod 2^16 for 16-bit x, y
MulMod16(x, y) ==
    (((x % 256) * y) + ((((x \div 256) * y) % 256) * 256)) % 65536

\* (a * b) mod 2^32
Mul32(a, b) ==
    LET p0 == (a[2] % 256) * b[2]
        p1 == (a[2] \div 256) * b[2]
        low == p0 + ((p1 % 256) * 256)
        carry == (low \div 65536) + (p1 \div 256)
    IN  <<(carry + MulMod16(a[1], b[2]) + MulMod16(a[2], b[1])) % 65536,
          low % 65536>>

\* a >> n, 0 <= n < 32
Shr32(a, n) ==
    IF n >= 16 THEN <<0, a[1] \div Pow2(n - 16)>>
    ELSE <<a[1] \div Pow2(n),
           (a[2] \div Pow2(n)) + ((a[1] % Pow2(n)) * Pow2(16 - n))>>

(***************************************************************************)
(* Hash(data, n, seed): keys are sequences of bytes.                       *)
(***************************************************************************)
HashM == U32(50852, 42899)     \* m = 0xc6a4a793
HashR == 24                    \* r = 24

\* DecodeFixed32: the little-endian word at data[pos+1 .. pos+4]
DecodeFixed32(data, pos) ==
    U32(data[pos + 3] + (256 * data[pos + 4]), data[pos + 1] + (256 * data[pos + 2]))

\* the loop "while (data + 4 <= limit)": returns <<h, position reached>>
RECURSIVE HashWords(_, _, _, _)
HashWords(data, pos, n, h) ==
    IF pos + 4 <= n
    THEN LET h1 == Add32(h, DecodeFixed32(data, pos))
             h2 == Mul32(h1, HashM)
             h3 == Xor32(h2, Shr32(h2, 16))
         IN  HashWords(data, pos + 4, n, h3)
    ELSE <<h, pos>>

\* the switch on the remaining 0..3 bytes, with its fall-through
HashTail(data, pos, n, h) ==
    LET rest == n - pos
        a3 == IF rest = 3 THEN Add32(h, U32(data[pos + 3], 0)) ELSE h
        a2 == IF rest >= 2 THEN Add32(a3, U32(0, data[pos + 2] * 256)) ELSE a3
        a1 == Add32(a2, U32(0, data[pos + 1]))
        b1 == Mul32(a1, HashM)
    IN  IF rest >= 1 THEN Xor32(b1, Shr32(b1, HashR)) ELSE h

Hash(data, n, seed) ==
    LET h0 == Xor32(seed, Mul32(ToU32(n), HashM))
        w == HashWords(data, 0, n, h0)
    IN  HashTail(data, w[2], n, w[1])

(***************************************************************************)
(* Pointers and entries.                                                   *)
(***************************************************************************)
NULL == 0
\* &lru_, the dummy head of the recency list of the shard at hand
LruHead == 0

\* struct LRUHandle; freed marks storage that free() has taken back: of a
\* freed entry only key_data, value, charge and hash are kept, as the record of
\* what the entry was, the rest of its storage is no longer program state
LRUHandle(value, charge, key, hash, refs) ==
    [value |-> value, next_hash |-> NULL, next |-> NULL, prev |-> NULL,
     charge |-> charge, key_length |-> Len(key), refs |-> refs,
     hash |-> hash, key_data |-> key, freed |-> FALSE]

(***************************************************************************)
(* The operations below are functions of a context c: the heap, the list   *)
(* of deleter calls, and the members of one shard (capacity_, usage_,      *)
(* lru_, table_).  c.ret is the value the operation returns, c.ok turns    *)
(* FALSE when an assert fails, c.evictions records the iterations of the   *)
(* eviction loop of the Insert in progress.                                *)
(***************************************************************************)

(***************************************************************************)
(* class HandleTable.  A slot, a pointer to an entry pointer, is           *)
(* <<"list", i>> for &list_[i] or <<"next_hash", e>> for &e->next_hash.    *)
(***************************************************************************)
\* hash & (length - 1)
Bucket(hash, length) ==
    LET mask == ToU32(length - 1)
    IN  (And16(hash[1], mask[1]) * 65536) + And16(hash[2], mask[2])

\* *ptr
Deref(c, ptr) ==
    IF ptr[1] = "list" THEN c.table_.list_[ptr[2]] ELSE c.heap[ptr[2]].next_hash

\* *ptr = v
Store(c, ptr, v) ==
    IF ptr[1] = "list"
    THEN [c EXCEPT !.table_.list_[ptr[2]] = v]
    ELSE [c EXCEPT !.heap[ptr[2]].next_hash = v]

RECURSIVE FindFrom(_, _, _, _)
FindFrom(c, ptr, key, hash) ==
    LET e == Deref(c, ptr)
    IN  IF e # NULL /\ (c.heap[e].hash # hash \/ key # c.heap[e].key_data)
        THEN FindFrom(c, <<"next_hash", e>>, key, hash)
        ELSE ptr

FindPointer(c, key, hash) ==
    FindFrom(c, <<"list", Bucket(hash, c.table_.length_)>>, key, hash)

\* HandleTable::Lookup
TableLookup(c, key, hash) == Deref(c, FindPointer(c, key, hash))

\* the loop "while (new_length < elems_) new_length *= 2"
RECURSIVE NewLength(_, _)
NewLength(n, elems) == IF n < elems THEN NewLength(n * 2, elems) ELSE n

\* a loop over one chain that moves the first entry of the chain only
ResizeChain_HeadOnly(st, h, new_length) ==
    IF h = NULL THEN st
    ELSE LET i == Bucket(st.heap[h].hash, new_length)
         IN  [heap |-> [st.heap EXCEPT ![h].next_hash = st.new_list[i]],
              new_list |-> [st.new_list EXCEPT ![i] = h],
              count |-> st.count + 1]

\* the inner loop of Resize over one chain; st = [heap, new_list, count]
RECURSIVE ResizeChain(_, _, _)
ResizeChain(st, h, new_length) ==
    IF h = NULL THEN st
    ELSE LET next == st.heap[h].next_hash
             i == Bucket(st.heap[h].hash, new_length)
         IN  ResizeChain([heap |-> [st.heap EXCEPT ![h].next_hash = st.new_list[i]],
                          new_list |-> [st.new_list EXCEPT ![i] = h],
                          count |-> st.count + 1],
                         next, new_length)

\* the outer loop of Resize over the old buckets i .. length-1
RECURSIVE ResizeBuckets(_, _, _, _, _)
ResizeBuckets(st, list, i, length, new_length) ==
    IF i < length
    THEN ResizeBuckets(ResizeChain(st, list[i], new_length), list, i + 1,
                       length, new_length)
    ELSE st

\* HandleTable::Resize
Resize(c) ==
    LET new_length == NewLength(4, c.table_.elems_)
        st0 == [heap |-> c.heap,
                new_list |-> [i \in 0 .. (new_length - 1) |-> NULL],
                count |-> 0]
        st == ResizeBuckets(st0, c.table_.list_, 0, c.table_.length_, new_length)
    IN  [c EXCEPT !.heap = st.heap,
                  !.ok = c.ok /\ (c.table_.elems_ = st.count),
                  !.table_.list_ = st.new_list,
                  !.table_.length_ = new_length]

\* Insert that links the new entry at the head of its bucket and leaves an
\* old entry of the same key chained behind it
TableInsert_Prepend(c, h) ==
    LET ptr == <<"list", Bucket(c.heap[h].hash, c.table_.length_)>>
        old == Deref(c, FindPointer(c, c.heap[h].key_data, c.heap[h].hash))
        c1 == [c EXCEPT !.heap[h].next_hash = Deref(c, ptr)]
        c2 == Store(c1, ptr, h)
    IN  [c2 EXCEPT !.ret = old]

\* HandleTable::Insert; the old entry is returned in ret
TableInsert(c, h) ==
    LET ptr == FindPointer(c, c.heap[h].key_data, c.heap[h].hash)
        old == Deref(c, ptr)
        c1 == [c EXCEPT !.heap[h].next_hash =
                            IF old = NULL THEN NULL ELSE c.heap[old].next_hash]
        c2 == Store(c1, ptr, h)
        c3 == [c2 EXCEPT !.table_.elems_ = @ + 1]
        c4 == IF c3.table_.elems_ > c3.table_.length_ THEN Resize(c3) ELSE c3
    IN  [(IF old = NULL THEN c4 ELSE c2) EXCEPT !.ret = old]

\* Remove that counts an element down also when it has found none
TableRemove_AlwaysDec(c, key, hash) ==
    LET ptr == FindPointer(c, key, hash)
        result == Deref(c, ptr)
        c1 == Store(c, ptr, c.heap[result].next_hash)
    IN  IF result # NULL
        THEN [c1 EXCEPT !.table_.elems_ = @ - 1, !.ret = result]
        ELSE [c EXCEPT !.table_.elems_ = @ - 1, !.ret = result]

\* HandleTable::Remove; the removed entry is returned in ret
TableRemove(c, key, hash) ==
    LET ptr == FindPointer(c, key, hash)
        result == Deref(c, ptr)
        c1 == Store(c, ptr, c.heap[result].next_hash)
    IN  IF result # NULL
        THEN [c1 EXCEPT !.table_.elems_ = @ - 1, !.ret = result]
        ELSE [c EXCEPT !.ret = result]

\* HandleTable::HandleTable
NewHandleTable ==
    LET c0 == [heap |-> <<>>, ok |-> TRUE,
               table_ |-> [length_ |-> 0, elems_ |-> 0, list_ |-> <<>>]]
    IN  Resize(c0).table_

(***************************************************************************)
(* class LRUCacheImpl.                                                     *)
(***************************************************************************)
\* p->next, where p is an entry or &lru_
NextOf(c, p) == IF p = LruHead THEN c.lru_.next ELSE c.heap[p].next
PrevOf(c, p) == IF p = LruHead THEN c.lru_.prev ELSE c.heap[p].prev

\* p->next = v, p->prev = v
SetNext(c, p, v) ==
    IF p = LruHead THEN [c EXCEPT !.lru_.next = v] ELSE [c EXCEPT !.heap[p].next = v]
SetPrev(c, p, v) ==
    IF p = LruHead THEN [c EXCEPT !.lru_.prev = v] ELSE [c EXCEPT !.heap[p].prev = v]

\* the deleter the callers pass: it records the call (key, value); e is the
\* entry the call is made for
Deleter(c, e) ==
    [c EXCEPT !.deleted = Append(@, [key |-> c.heap[e].key_data,
                                     value |-> c.heap[e].value,
                                     entry |-> e])]

\* Unref with the test "refs <= 1" in place of "refs <= 0"
Unref_OffByOne(c, e) ==
    LET c1 == [c EXCEPT !.ok = c.ok /\ (c.heap[e].refs > 0),
                        !.heap[e].refs = @ - 1]
        c2 == [c1 EXCEPT !.usage_ = @ - c1.heap[e].charge]
        c3 == Deleter(c2, e)
        c4 == [c3 EXCEPT !.heap[e].freed = TRUE, !.heap[e].next_hash = NULL,
                         !.heap[e].next = NULL, !.heap[e].prev = NULL]
    IN  IF c1.heap[e].refs <= 1 THEN c4 ELSE c1

\* Unref that leaves usage_ alone when it destroys the entry
Unref_KeepUsage(c, e) ==
    LET c1 == [c EXCEPT !.ok = c.ok /\ (c.heap[e].refs > 0),
                        !.heap[e].refs = @ - 1]
        c3 == Deleter(c1, e)
        c4 == [c3 EXCEPT !.heap[e].freed = TRUE, !.heap[e].next_hash = NULL,
                         !.heap[e].next = NULL, !.heap[e].prev = NULL]
    IN  IF c1.heap[e].refs <= 0 THEN c4 ELSE c1

\* Unref that takes the charge out of usage_ with every reference dropped
Unref_EarlyUsage(c, e) ==
    LET c1 == [c EXCEPT !.ok = c.ok /\ (c.heap[e].refs > 0),
                        !.heap[e].refs = @ - 1,
                        !.usage_ = @ - c.heap[e].charge]
        c3 == Deleter(c1, e)
        c4 == [c3 EXCEPT !.heap[e].freed = TRUE, !.heap[e].next_hash = NULL,
                         !.heap[e].next = NULL, !.heap[e].prev = NULL]
    IN  IF c1.heap[e].refs <= 0 THEN c4 ELSE c1

\* LRUCacheImpl::Unref
Unref(c, e) ==
    LET c1 == [c EXCEPT !.ok = c.ok /\ (c.heap[e].refs > 0),
                        !.heap[e].refs = @ - 1]
        c2 == [c1 EXCEPT !.usage_ = @ - c1.heap[e].charge]
        c3 == Deleter(c2, e)
        c4 == [c3 EXCEPT !.heap[e].freed = TRUE, !.heap[e].next_hash = NULL,
                         !.heap[e].next = NULL, !.heap[e].prev = NULL]
    IN  IF c1.heap[e].refs <= 0 THEN c4 ELSE c1

\* LRUCacheImpl::LRU_Remove
LRU_Remove(c, e) ==
    LET c1 == SetPrev(c, NextOf(c, e), PrevOf(c, e))
    IN  SetNext(c1, PrevOf(c1, e), NextOf(c1, e))

\* LRU_Append that links e just after lru_, at the oldest end
LRU_Append_Front(c, e) ==
    LET c1 == SetPrev(c, e, LruHead)
        c2 == SetNext(c1, e, c1.lru_.next)
        c3 == SetPrev(c2, NextOf(c2, e), e)
    IN  SetNext(c3, PrevOf(c3, e), e)

\* LRUCacheImpl::LRU_Append
LRU_Append(c, e) ==
    LET c1 == SetNext(c, e, LruHead)
        c2 == SetPrev(c1, e, c1.lru_.prev)
        c3 == SetNext(c2, PrevOf(c2, e), e)
    IN  SetPrev(c3, NextOf(c3, e), e)

\* Lookup that takes the reference but leaves the entry where it is in the list
Lookup_NoTouch(c, key, hash) ==
    LET e == TableLookup(c, key, hash)
        c1 == [c EXCEPT !.heap[e].refs = @ + 1]
    IN  IF e # NULL THEN [c1 EXCEPT !.ret = e] ELSE [c EXCEPT !.ret = e]

\* Lookup that returns the entry without taking a reference
Lookup_NoRef(c, key, hash) ==
    LET e == TableLookup(c, key, hash)
        c2 == LRU_Remove(c, e)
        c3 == LRU_Append(c2, e)
    IN  IF e # NULL THEN [c3 EXCEPT !.ret = e] ELSE [c EXCEPT !.ret = e]

\* Lookup that puts the entry it has found at the oldest end of the list
Lookup_Front(c, key, hash) ==
    LET e == TableLookup(c, key, hash)
        c1 == [c EXCEPT !.heap[e].refs = @ + 1]
        c2 == LRU_Remove(c1, e)
        c3 == LRU_Append_Front(c2, e)
    IN  IF e # NULL THEN [c3 EXCEPT !.ret = e] ELSE [c EXCEPT !.ret = e]

\* LRUCacheImpl::Lookup; the handle (or NULL) is returned in ret
Lookup(c, key, hash) ==
    LET e == TableLookup(c, key, hash)
        c1 == [c EXCEPT !.heap[e].refs = @ + 1]
        c2 == LRU_Remove(c1, e)
        c3 == LRU_Append(c2, e)
    IN  IF e # NULL THEN [c3 EXCEPT !.ret = e] ELSE [c EXCEPT !.ret = e]

\* LRUCacheImpl::Release
Release(c, handle) == Unref(c, handle)

\* the entries of the recency list, oldest first (lru_.next ... lru_.prev)
RECURSIVE ListFrom(_, _, _)
ListFrom(c, p, fuel) ==
    IF p = LruHead \/ fuel = 0 THEN <<>>
    ELSE <<p>> \o ListFrom(c, c.heap[p].next, fuel - 1)

LruList(c) == ListFrom(c, c.lru_.next, Len(c.heap))

\* the entries that are allocated and not freed
Live(heap) == {e \in 1 .. Len(heap) : ~heap[e].freed}

\* the eviction loop with the test "usage_ >= capacity_"
RECURSIVE Evict_Geq(_)
Evict_Geq(c) ==
    IF c.usage_ >= c.capacity_ /\ c.lru_.next # LruHead
    THEN LET old == c.lru_.next
             c1 == LRU_Remove(c, old)
             c2 == TableRemove(c1, c1.heap[old].key_data, c1.heap[old].hash)
             c3 == Unref(c2, old)
             rec == [victim |-> old, usage |-> c.usage_, list |-> LruList(c),
                     live |-> Live(c.heap)]
         IN  Evict_Geq([c3 EXCEPT !.evictions = Append(@, rec)])
    ELSE c

\* the eviction loop with the test "usage_ > capacity_ + 1"
RECURSIVE Evict_Slack(_)
Evict_Slack(c) ==
    IF c.usage_ > c.capacity_ + 1 /\ c.lru_.next # LruHead
    THEN LET old == c.lru_.next
             c1 == LRU_Remove(c, old)
             c2 == TableRemove(c1, c1.heap[old].key_data, c1.heap[old].hash)
             c3 == Unref(c2, old)
             rec == [victim |-> old, usage |-> c.usage_, list |-> LruList(c),
                     live |-> Live(c.heap)]
         IN  Evict_Slack([c3 EXCEPT !.evictions = Append(@, rec)])
    ELSE c

\* the eviction loop of Insert
RECURSIVE Evict(_)
Evict(c) ==
    IF c.usage_ > c.capacity_ /\ c.lru_.next # LruHead
    THEN LET old == c.lru_.next
             c1 == LRU_Remove(c, old)
             c2 == TableRemove(c1, c1.heap[old].key_data, c1.heap[old].hash)
             c3 == Unref(c2, old)
             rec == [victim |-> old, usage |-> c.usage_, list |-> LruList(c),
                     live |-> Live(c.heap)]
         IN  Evict([c3 EXCEPT !.evictions = Append(@, rec)])
    ELSE c

\* Insert that skips the eviction loop when it has displaced an entry
Insert_NoEvictOnReplace(c, key, hash, value, charge) ==
    LET e == Len(c.heap) + 1
        c1 == [c EXCEPT !.heap = Append(@, LRUHandle(value, charge, key, hash, 2))]
        c2 == LRU_Append(c1, e)
        c3 == [c2 EXCEPT !.usage_ = @ + charge]
        c4 == TableInsert(c3, e)
        old == c4.ret
        c5 == IF old # NULL THEN Unref(LRU_Remove(c4, old), old) ELSE Evict(c4)
    IN  [c5 EXCEPT !.ret = e]

\* Insert that unlinks the entry it displaces but does not Unref it
Insert_LeakOld(c, key, hash, value, charge) ==
    LET e == Len(c.heap) + 1
        c1 == [c EXCEPT !.heap = Append(@, LRUHandle(value, charge, key, hash, 2))]
        c2 == LRU_Append(c1, e)
        c3 == [c2 EXCEPT !.usage_ = @ + charge]
        c4 == TableInsert(c3, e)
        old == c4.ret
        c5 == IF old # NULL THEN LRU_Remove(c4, old) ELSE c4
        c6 == Evict(c5)
    IN  [c6 EXCEPT !.ret = e]

\* Insert that fails, returning NULL, for a charge above the capacity
Insert_RejectsBig(c, key, hash, value, charge) ==
    LET e == Len(c.heap) + 1
        c1 == [c EXCEPT !.heap = Append(@, LRUHandle(value, charge, key, hash, 2))]
        c2 == LRU_Append(c1, e)
        c3 == [c2 EXCEPT !.usage_ = @ + charge]
        c4 == TableInsert(c3, e)
        old == c4.ret
        c5 == IF old # NULL THEN Unref(LRU_Remove(c4, old), old) ELSE c4
        c6 == Evict(c5)
    IN  IF charge > c.capacity_ THEN [c EXCEPT !.ret = NULL]
        ELSE [c6 EXCEPT !.ret = e]

\* LRUCacheImpl::Insert; the handle is returned in ret
Insert(c, key, hash, value, charge) ==
    LET e == Len(c.heap) + 1
        c1 == [c EXCEPT !.heap = Append(@, LRUHandle(value, charge, key, hash, 2))]
        c2 == LRU_Append(c1, e)
        c3 == [c2 EXCEPT !.usage_ = @ + charge]
        c4 == TableInsert(c3, e)
        old == c4.ret
        c5 == IF old # NULL THEN Unref(LRU_Remove(c4, old), old) ELSE c4
        c6 == Evict(c5)
    IN  [c6 EXCEPT !.ret = e]

\* Erase that unlinks and unrefs the entry but leaves it in the table
Erase_KeepsTable(c, key, hash) ==
    LET e == TableLookup(c, key, hash)
    IN  IF e # NULL THEN [Unref(LRU_Remove(c, e), e) EXCEPT !.ret = e]
        ELSE [c EXCEPT !.ret = e]

\* LRUCacheImpl::Erase
Erase(c, key, hash) ==
    LET c1 == TableRemove(c, key, hash)
        e == c1.ret
    IN  IF e # NULL THEN Unref(LRU_Remove(c1, e), e) ELSE c1

(***************************************************************************)
(* class ShardedLRUCache.                                                  *)
(***************************************************************************)
kNumShardBits == 4
kNumShards == Pow2(kNumShardBits)
Shards == 0 .. (kNumShards - 1)

\* strlen(s)
StrLen(s) == Len(s)

HashSlice(s) == Hash(s, StrLen(s), U32(0, 0))

\* a routing by the low bits of the hash
Shard_LowBits(hash) == hash[2] % kNumShards

\* hash >> (32 - kNumShardBits), as a shard index
Shard(hash) == Shr32(hash, 32 - kNumShardBits)[2]

\* the per_shard capacity the constructor hands to SetCapacity
PerShard(capacity) == (capacity + (kNumShards - 1)) \div kNumShards

(***************************************************************************)
(* Inputs of the model.                                                    *)
(***************************************************************************)
\* the keys "1", "14", "1001" (all of shard 8; "1" and "1001" share a bucket
\* of a table of length 4) and "2" (shard 5)
Keys == {<<49>>, <<49, 52>>, <<49, 48, 48, 49>>, <<50>>}
\* the keys of the callers that keep handles: "1" and "1001"
PinKeys == {<<49>>, <<49, 48, 48, 49>>}
\* the keys of the test fixture: "1", "14" and "1001"
TestKeys == {<<49>>, <<49, 52>>, <<49, 48, 48, 49>>}
\* the values the callers pass: a caller passes a value it has not passed
\* before (cache_test.cc passes 1000+index, 2000+i), the n-th Insert passes
\* FreshValue(n); the cache never inspects a value
FreshValue(n) == 100 + n
Values == {FreshValue(n) : n \in 1 .. (MaxEntries + MaxTestEntries)}
Charges == {1, 2}
\* the charges of the test fixture: none, light, heavy
TestCharges == {0, 1, 2}
\* the capacity passed to LRUCache::New: 2 per shard
Capacities == {17}
\* the capacities of the test fixture: 1 and 2 per shard
TestCapacities == {16, 17}

NoValue == -1

\* HashSlice of the keys of the model, computed once
KeyHash == [k \in Keys |-> HashSlice(k)]

(***************************************************************************)
(* State.                                                                  *)
(***************************************************************************)
VARIABLES
    heap,       \* the entries ever allocated, in allocation order
    shard_,     \* shard_[s]: capacity_, usage_, lru_, table_ of shard s
    deleted,    \* the deleter calls made so far, in order
    ok,         \* FALSE once an assert of cache.cc has failed
    handles,    \* handles[e]: handles to entry e the callers hold
    latest,     \* latest[k]: value of the last Insert of k not followed by
                \* an Erase of k, or NoValue
    touched,    \* journal of the test fixture: the entries in the order of
                \* their last Insert or Lookup hit
    stamp,      \* journal of the test fixture: stamp[e] is the number of
                \* Inserts made up to the last Insert or Lookup hit of e
    kCacheSize, \* the capacity the cache was made with
    evicted     \* the entries the eviction loop of Insert has removed

VARIABLES
    last_id_,   \* ShardedLRUCache::last_id_
    id_mutex_,  \* ShardedLRUCache::id_mutex_: the thread that holds it, or 0
    mutex_,     \* mutex_[s]: the thread that holds the mutex of shard s, or 0
    thread,     \* thread[t]: where thread t is in the call it makes, and
                \* the locals of the call
    ids,        \* the calls of NewId that have returned, in order
    serial,     \* the cache as the calls of the threads leave it when each
                \* is made alone, in the order the calls end
    tbl         \* a HandleTable by itself, with the LRUHandles made for it

\* the state of the cache and of the callers that keep handles
cachevars == <<heap, shard_, deleted, ok, handles, latest, touched, stamp,
               kCacheSize, evicted>>

\* the state of the threads, of NewId and of the table by itself
aside == <<last_id_, id_mutex_, mutex_, thread, ids, serial, tbl>>

vars == <<heap, shard_, deleted, ok, handles, latest, touched, stamp,
          kCacheSize, evicted, last_id_, id_mutex_, mutex_, thread, ids,
          serial, tbl>>

\* the state of shard s together with the heap, as the operations see it
Ctx(s) ==
    [heap |-> heap, deleted |-> deleted, ok |-> ok,
     capacity_ |-> shard_[s].capacity_, usage_ |-> shard_[s].usage_,
     lru_ |-> shard_[s].lru_, table_ |-> shard_[s].table_,
     ret |-> NULL, evictions |-> <<>>]

\* the state left by an operation on shard s
Commit(s, c) ==
    /\ heap' = c.heap
    /\ deleted' = c.deleted
    /\ ok' = c.ok
    /\ shard_' = [shard_ EXCEPT ![s] =
                     [capacity_ |-> c.capacity_, usage_ |-> c.usage_,
                      lru_ |-> c.lru_, table_ |-> c.table_]]

\* LRUCacheImpl::LRUCacheImpl and SetCapacity
NewShard(per_shard) ==
    [capacity_ |-> per_shard, usage_ |-> 0,
     lru_ |-> [next |-> LruHead, prev |-> LruHead],
     table_ |-> NewHandleTable]

\* ShardedLRUCache::ShardedLRUCache
NewCache(capacity) == [s \in Shards |-> NewShard(PerShard(capacity))]

\* ShardedLRUCache::Insert, Lookup, Release, Erase, Value; each returns the
\* context of the shard it has acted on
CacheInsert(key, value, charge) ==
    LET hash == KeyHash[key]
    IN  Insert(Ctx(Shard(hash)), key, hash, value, charge)

CacheLookup(key) ==
    LET hash == KeyHash[key]
    IN  Lookup(Ctx(Shard(hash)), key, hash)

CacheRelease(handle) == Release(Ctx(Shard(heap[handle].hash)), handle)

CacheErase(key) ==
    LET hash == KeyHash[key]
    IN  Erase(Ctx(Shard(hash)), key, hash)

CacheValue(c, handle) == c.heap[handle].value

\* what a caller gets from Value(Lookup(key)): the value, or NoValue for NULL
LookupResult(key) ==
    LET c == CacheLookup(key)
    IN  IF c.ret = NULL THEN NoValue ELSE CacheValue(c, c.ret)

(***************************************************************************)
(* Bookkeeping of the callers.                                             *)
(***************************************************************************)
RECURSIVE SumSeq(_)
SumSeq(q) == IF q = <<>> THEN 0 ELSE Head(q) + SumSeq(Tail(q))

Outstanding == SumSeq(handles)

\* q without x
Without(q, x) == SelectSeq(q, LAMBDA y : y # x)

\* x becomes the most recently touched entry
Touch(q, x) == Append(Without(q, x), x)

\* the entries the eviction loop of an Insert has removed
Victims(c) == {c.evictions[i].victim : i \in 1 .. Len(c.evictions)}

(***************************************************************************)
(* Threads, and the HandleTable taken by itself.                           *)
(***************************************************************************)
Threads == 1 .. MaxThreads

\* a thread that is in no call
Idle == [pc |-> "idle"]

\* a lock that returns whoever holds the mutex
CanLock_Always(m) == TRUE

\* std::mutex::lock returns when no thread holds the mutex m
CanLock(m) == m = 0

\* the keys "1", "6", "8", "2", "3" of the LRUHandles made for the
\* HandleTable: with 4 buckets the first three share bucket 3, with 8
\* buckets "8" is in bucket 3 and "1", "6" in bucket 7
TableKeys == <<(<<49>>), (<<54>>), (<<56>>), (<<50>>), (<<51>>)>>

\* the key of the n-th LRUHandle made: the sixth has the key of the first
PoolKey(n) == TableKeys[((n - 1) % Len(TableKeys)) + 1]

TableHash == [n \in 1 .. Len(TableKeys) |-> HashSlice(TableKeys[n])]

PoolHash(n) == TableHash[((n - 1) % Len(TableKeys)) + 1]

\* a HandleTable as its constructor leaves it, and the LRUHandles made for
\* it (present: the handles inserted and not removed or replaced since)
NewTable ==
    [heap |-> [n \in 1 .. MaxTableHandles |->
                  LRUHandle(FreshValue(n), 1, PoolKey(n), PoolHash(n), 1)],
     ok |-> TRUE, table_ |-> NewHandleTable, ret |-> NULL, present |-> {}]

(***************************************************************************)
(* The calls of callers that keep the handles they get.                    *)
(***************************************************************************)
\* cache_ = LRUCache::New(capacity), for a capacity of the set sizes; serial
\* and tbl are set by the specifications that use them
New(sizes) ==
    /\ kCacheSize \in sizes
    /\ shard_ = NewCache(kCacheSize)
    /\ evicted = {}
    /\ heap = <<>>
    /\ deleted = <<>>
    /\ ok = TRUE
    /\ handles = <<>>
    /\ latest = [k \in Keys |-> NoValue]
    /\ touched = <<>>
    /\ stamp = <<>>
    /\ last_id_ = 0
    /\ id_mutex_ = 0
    /\ mutex_ = [s \in Shards |-> 0]
    /\ thread = [t \in Threads |-> Idle]
    /\ ids = <<>>

Init ==
    /\ New(Capacities)
    /\ serial = <<>>
    /\ tbl = <<>>

\* h = cache->Insert(key, value, charge, deleter); the caller keeps h
DoInsert(key, value, charge) ==
    /\ Len(heap) < MaxEntries
    /\ Outstanding < MaxHandles
    /\ value = FreshValue(Len(heap) + 1)
    /\ LET c == CacheInsert(key, value, charge)
       IN  /\ Commit(Shard(KeyHash[key]), c)
           /\ handles' = Append(handles, 1)
           /\ latest' = [latest EXCEPT ![key] = value]
           /\ evicted' = evicted \cup Victims(c)
           /\ UNCHANGED <<touched, stamp, kCacheSize>>
           /\ UNCHANGED aside

\* h = cache->Lookup(key); the caller keeps h when it is not NULL
DoLookup(key) ==
    LET c == CacheLookup(key)
    IN  /\ c.ret # NULL => Outstanding < MaxHandles
        /\ Commit(Shard(KeyHash[key]), c)
        /\ handles' = IF c.ret # NULL THEN [handles EXCEPT ![c.ret] = @ + 1]
                      ELSE handles
        /\ UNCHANGED <<latest, touched, stamp, kCacheSize, evicted>>
        /\ UNCHANGED aside

\* cache->Release(h) for a handle h the caller holds
DoRelease(e) ==
    /\ handles[e] > 0
    /\ LET c == CacheRelease(e)
       IN  /\ Commit(Shard(heap[e].hash), c)
           /\ handles' = [handles EXCEPT ![e] = @ - 1]
           /\ UNCHANGED <<latest, touched, stamp, kCacheSize, evicted>>
           /\ UNCHANGED aside

\* cache->Erase(key)
DoErase(key) ==
    LET c == CacheErase(key)
    IN  /\ Commit(Shard(KeyHash[key]), c)
        /\ latest' = [latest EXCEPT ![key] = NoValue]
        /\ UNCHANGED <<handles, touched, stamp, kCacheSize, evicted>>
        /\ UNCHANGED aside

Next ==
    \/ \E key \in PinKeys, value \in Values, charge \in Charges :
           DoInsert(key, value, charge)
    \/ \E key \in PinKeys : DoLookup(key)
    \/ \E e \in 1 .. Len(heap) : DoRelease(e)
    \/ \E key \in PinKeys : DoErase(key)

Spec == Init /\ [][Next]_vars

(***************************************************************************)
(* The calls of the test fixture LRUCacheTest of cache_test.cc, as the     *)
(* tests EvictionPolicy and HeavyEntries make them: Insert and Lookup,     *)
(* each releasing its handle before it returns.  The fixture keeps the     *)
(* journal touched, stamp.                                                 *)
(***************************************************************************)
\* LRUCacheTest::Insert: cache_->Release(cache_->Insert(key, value, charge))
TestInsert(key, value, charge) ==
    /\ Len(heap) < MaxTestEntries
    /\ value = FreshValue(Len(heap) + 1)
    /\ LET c == CacheInsert(key, value, charge)
           c1 == Release(c, c.ret)
       IN  /\ Commit(Shard(c.heap[c.ret].hash), c1)
           /\ handles' = Append(handles, 0)
           /\ latest' = [latest EXCEPT ![key] = value]
           /\ evicted' = evicted \cup Victims(c)
           /\ touched' = Append(touched, c.ret)
           /\ stamp' = Append(stamp, Len(heap) + 1)
           /\ UNCHANGED kCacheSize
           /\ UNCHANGED aside

\* LRUCacheTest::Lookup
TestLookup(key) ==
    LET c == CacheLookup(key)
        c1 == IF c.ret # NULL THEN Release(c, c.ret) ELSE c
    IN  /\ Commit(Shard(KeyHash[key]), c1)
        /\ touched' = IF c.ret # NULL THEN Touch(touched, c.ret) ELSE touched
        /\ stamp' = IF c.ret # NULL THEN [stamp EXCEPT ![c.ret] = Len(heap)]
                    ELSE stamp
        /\ UNCHANGED <<handles, latest, kCacheSize, evicted>>
        /\ UNCHANGED aside

TestNext ==
    \/ \E key \in TestKeys, value \in Values, charge \in TestCharges :
           TestInsert(key, value, charge)
    \/ \E key \in TestKeys : TestLookup(key)

TestInit ==
    /\ New(TestCapacities)
    /\ serial = <<>>
    /\ tbl = <<>>

SpecTest == TestInit /\ [][TestNext]_vars

(***************************************************************************)
(* What a state holds.                                                     *)
(***************************************************************************)
\* the entries ever allocated
Entries == 1 .. Len(heap)

\* the shard an entry belongs to
ShardOf(e) == Shard(heap[e].hash)

\* the entries in the recency list of shard s, oldest first
Recency(s) == LruList(Ctx(s))

RECURSIVE SeqToSet(_)
SeqToSet(q) == IF q = <<>> THEN {} ELSE {Head(q)} \cup SeqToSet(Tail(q))

\* the entries of shard s that hold the in-cache reference
Resident(s) == SeqToSet(Recency(s))

\* the entries of shard s that Lookup of some key returns
Retrievable(s) ==
    {e \in Entries : ShardOf(e) = s /\ ~heap[e].freed
                     /\ TableLookup(Ctx(s), heap[e].key_data, heap[e].hash) = e}

\* the entries the deleter has been called for
Destroyed(e) == \E i \in 1 .. Len(deleted) : deleted[i].entry = e

\* the sum of the charges of the entries S, as the heap h records them
RECURSIVE ChargeSum(_, _)
ChargeSum(h, S) ==
    IF S = {} THEN 0
    ELSE LET e == CHOOSE x \in S : TRUE
         IN  h[e].charge + ChargeSum(h, S \ {e})

\* the entry of the last Insert of key, 0 when there is none
LastEntry(key) ==
    LET S == {e \in Entries : heap[e].key_data = key}
    IN  IF S = {} THEN 0 ELSE CHOOSE e \in S : \A x \in S : x <= e

\* the entries that are neither in a table nor in a recency list
Detached(e) == e \notin Resident(ShardOf(e)) /\ e \notin Retrievable(ShardOf(e))

\* only key has been inserted so far
SingleKey(key) == \A e \in Entries : heap[e].key_data = key

\* no assert of cache.cc fails
Ok == ok

(***************************************************************************)
(* C1.  As claimed: in a run of calls on a single key, Lookup of the key   *)
(* returns the value of the most recent Insert of the key that no later    *)
(* Insert has superseded and no Erase has removed, whatever the charges    *)
(* and the handles held.                                                   *)
(***************************************************************************)
C1_LookupReturnsLatest ==
    \A key \in Keys : SingleKey(key) => LookupResult(key) = latest[key]

(***************************************************************************)
(* C1, amended.  Lookup of a key returns the value of the most recent      *)
(* Insert of the key when no Erase of the key has followed it and the      *)
(* eviction loop of no Insert (its own included) has removed its entry;    *)
(* otherwise Lookup misses.                                                *)
(***************************************************************************)
C1_LookupReturnsLatestUnlessEvicted ==
    \A key \in Keys :
        LookupResult(key) =
            IF latest[key] # NoValue /\ LastEntry(key) \notin evicted
            THEN latest[key] ELSE NoValue

\* a key inserted twice and nothing else, whose Lookup hits
C1_Witness ==
    \E key \in Keys :
        /\ SingleKey(key)
        /\ Len(heap) >= 2
        /\ LookupResult(key) = FreshValue(Len(heap))

(***************************************************************************)
(* C2.  An entry with a handle not yet released is never destroyed; the    *)
(* destructor of an entry that is detached (overwritten, erased or         *)
(* evicted) and pinned is called in the step that releases its last        *)
(* handle, and in no other step.                                           *)
(***************************************************************************)
C2_PinnedNotDestroyed ==
    [][ \A e \in 1 .. Len(heap') :
          /\ handles'[e] > 0 => ~(\E i \in 1 .. Len(deleted') : deleted'[i].entry = e)
          /\ (e \in Entries /\ handles[e] > 0 /\ Detached(e))
                => ((\E i \in 1 .. Len(deleted') : deleted'[i].entry = e)
                       <=> handles'[e] = 0) ]_vars

\* an entry that is detached, pinned and not destroyed, next to an entry
\* that was destroyed
C2_Witness ==
    \E e \in Entries :
        /\ handles[e] > 0 /\ Detached(e) /\ ~Destroyed(e)
        /\ \E x \in Entries : Destroyed(x)

(***************************************************************************)
(* C3.  The destructor is called at most once for an entry, with the       *)
(* entry's own key and value; an entry is destroyed exactly when its       *)
(* reference count is zero, so in the call that drops it to zero; and an   *)
(* entry without a handle that is overwritten, erased or evicted is        *)
(* destroyed when that call returns.                                       *)
(***************************************************************************)
C3_DestroyedOnceAtZero ==
    /\ \A i, j \in 1 .. Len(deleted) :
           deleted[i].entry = deleted[j].entry => i = j
    /\ \A i \in 1 .. Len(deleted) :
           /\ deleted[i].entry \in Entries
           /\ deleted[i].key = heap[deleted[i].entry].key_data
           /\ deleted[i].value = heap[deleted[i].entry].value
    /\ \A e \in Entries :
           /\ Destroyed(e) <=> heap[e].refs = 0
           /\ Destroyed(e) <=> heap[e].freed
           /\ (Detached(e) /\ handles[e] = 0) => Destroyed(e)

\* two entries destroyed, one of them by the Insert that displaced it
C3_Witness ==
    /\ Len(deleted) >= 2
    /\ \E e \in Entries : Destroyed(e) /\ LastEntry(heap[e].key_data) # e


(***************************************************************************)
(* The Inserts a state allows.                                             *)
(***************************************************************************)
\* the entry the next Insert allocates
NextEntry == Len(heap) + 1

\* the context the next Insert of key with charge leaves
InsertOf(key, charge) == CacheInsert(key, FreshValue(NextEntry), charge)

\* the place of x in q
Rank(q, x) == CHOOSE i \in 1 .. Len(q) : q[i] = x

\* the smallest n with kNumShards * n >= capacity
CeilPerShard(size) ==
    CHOOSE n \in 0 .. size : kNumShards * n >= size /\ kNumShards * (n - 1) < size

\* the entries of shard s not yet destroyed, as heap h has them
LiveOf(h, s) == {e \in Live(h) : Shard(h[e].hash) = s}

(***************************************************************************)
(* C4.  Every Insert evicts in recency order: each victim is, when it is   *)
(* evicted, the entry of the recency list whose last Insert or Lookup hit  *)
(* (by the journal of the callers) is the oldest.                          *)
(***************************************************************************)
C4_EvictsLeastRecent ==
    \A key \in TestKeys, charge \in TestCharges :
        LET c == InsertOf(key, charge)
            order == Append(touched, NextEntry)
        IN  \A i \in 1 .. Len(c.evictions) :
                \A x \in SeqToSet(c.evictions[i].list) :
                    Rank(order, c.evictions[i].victim) <= Rank(order, x)

\* an Insert evicts an entry while an entry inserted earlier, and looked up
\* since, stays
C4_Witness ==
    \E key \in TestKeys, charge \in TestCharges :
        LET c == InsertOf(key, charge)
        IN  \E i \in 1 .. Len(c.evictions) :
                \E x \in SeqToSet(c.evictions[i].list) :
                    /\ x < c.evictions[i].victim
                    /\ x \in Resident(Shard(KeyHash[key]))
                    /\ ~c.heap[x].freed

(***************************************************************************)
(* C5.  As claimed: Insert evicts an entry only when the total charge of   *)
(* the entries then in the table and recency list of the shard exceeds     *)
(* the capacity of the shard.                                              *)
(***************************************************************************)
C5_EvictsOnlyWhenResidentOver ==
    \A key \in PinKeys, charge \in Charges :
        LET c == InsertOf(key, charge)
        IN  \A i \in 1 .. Len(c.evictions) :
                ChargeSum(c.heap, SeqToSet(c.evictions[i].list)) > c.capacity_

(***************************************************************************)
(* C5, amended.  Insert evicts an entry only when the total charge of the  *)
(* entries of the shard not yet destroyed, those in the recency list and   *)
(* those detached but still pinned by handles, exceeds the capacity of     *)
(* the shard.                                                              *)
(***************************************************************************)
C5_EvictsOnlyWhenLiveOver ==
    \A key \in PinKeys, charge \in Charges :
        LET c == InsertOf(key, charge)
        IN  \A i \in 1 .. Len(c.evictions) :
                ChargeSum(c.heap,
                          {e \in c.evictions[i].live :
                               Shard(c.heap[e].hash) = Shard(KeyHash[key])})
                    > c.capacity_

\* an Insert evicts an entry of another key while a detached entry is pinned
C5_Witness ==
    /\ \E e \in Entries : Detached(e) /\ handles[e] > 0
    /\ \E key \in PinKeys, charge \in Charges :
           LET c == InsertOf(key, charge)
           IN  \E i \in 1 .. Len(c.evictions) :
                   /\ c.evictions[i].victim # NextEntry
                   /\ heap[c.evictions[i].victim].key_data # key

(***************************************************************************)
(* C6.  In every shard the charges of the entries Lookup can return sum    *)
(* to at most ceil(capacity/16), or the recency list is empty; with no     *)
(* handle held the charges of all those entries of the cache sum to at     *)
(* most 16*ceil(capacity/16).                                              *)
(***************************************************************************)
C6_RetrievableWithinCapacity ==
    /\ \A s \in Shards :
           \/ ChargeSum(heap, Retrievable(s)) <= CeilPerShard(kCacheSize)
           \/ Recency(s) = <<>>
    /\ Outstanding = 0 =>
           ChargeSum(heap, UNION {Retrievable(s) : s \in Shards})
               <= kNumShards * CeilPerShard(kCacheSize)

\* a shard filled to its capacity by two entries, after an eviction, with
\* no handle held
C6_Witness ==
    /\ Outstanding = 0
    /\ evicted # {}
    /\ \E s \in Shards :
           /\ Cardinality(Retrievable(s)) = 2
           /\ ChargeSum(heap, Retrievable(s)) = CeilPerShard(kCacheSize)

(***************************************************************************)
(* C7.  As claimed: usage_ of a shard is the sum of the charges of the     *)
(* entries in its table and recency list.                                  *)
(***************************************************************************)
C7_UsageIsResidentCharge ==
    \A s \in Shards : shard_[s].usage_ = ChargeSum(heap, Resident(s))

(***************************************************************************)
(* C7, amended.  usage_ of a shard is the sum of the charges of the        *)
(* entries of the shard not yet destroyed: those in the table and recency  *)
(* list and those evicted, erased or overwritten that handles still pin;   *)
(* the charge of an entry leaves usage_ when the entry is destroyed.       *)
(***************************************************************************)
C7_UsageIsLiveCharge ==
    \A s \in Shards : shard_[s].usage_ = ChargeSum(heap, LiveOf(heap, s))

\* a pinned detached entry, a resident entry and a destroyed entry
C7_Witness ==
    /\ \E e \in Entries : Detached(e) /\ handles[e] > 0 /\ ~heap[e].freed
    /\ \E e \in Entries : e \in Resident(ShardOf(e))
    /\ \E e \in Entries : heap[e].freed

(***************************************************************************)
(* C8.  Erase of a key that is not in the cache changes nothing and calls  *)
(* no destructor; a second Erase of a key changes nothing after the        *)
(* first; Lookup of the key misses after one Erase and after two.          *)
(***************************************************************************)
C8_EraseAbsentIsNoOp ==
    \A key \in Keys :
        LET s == Shard(KeyHash[key])
            c1 == CacheErase(key)
            d1 == [c1 EXCEPT !.ret = NULL]
            c2 == Erase(d1, key, KeyHash[key])
        IN  /\ CacheLookup(key).ret = NULL => c1 = Ctx(s)
            /\ c2 = d1
            /\ Lookup(d1, key, KeyHash[key]).ret = NULL
            /\ Lookup(c2, key, KeyHash[key]).ret = NULL

\* a key that was inserted and erased while a handle pins its entry, next to
\* a key still in the cache
C8_Witness ==
    /\ \E key \in Keys :
           /\ latest[key] = NoValue
           /\ LastEntry(key) # 0
           /\ handles[LastEntry(key)] > 0
    /\ \E key \in Keys : CacheLookup(key).ret # NULL

(***************************************************************************)
(* C9.  The callers' discipline for the entry x of a key: since x was last *)
(* inserted or looked up there has been at most one Insert, so every       *)
(* Insert of another key before the last was followed by a Lookup of the   *)
(* key of x.                                                               *)
(***************************************************************************)
LookedUpAfterEveryInsert(x) == Len(heap) - stamp[x] <= 1

\* no entry inserted before the last touch of x has been looked up since
NoOtherLookupSince(x) ==
    \A i \in 1 .. Len(touched) : i > Rank(touched, x) => touched[i] > stamp[x]

\* all charges are 1
UnitCharges == \A e \in Entries : heap[e].charge = 1

(***************************************************************************)
(* C9.  As claimed: with unit charges, no handle held and a shard capacity *)
(* of at least 2, a key that is looked up after every Insert of another    *)
(* key is in the cache: Lookup hits and returns the value inserted for it. *)
(***************************************************************************)
C9_HotKeyStays ==
    \A key \in TestKeys :
        LET x == LastEntry(key)
        IN  (/\ x # 0
             /\ UnitCharges
             /\ shard_[Shard(KeyHash[key])].capacity_ >= 2
             /\ LookedUpAfterEveryInsert(x))
            => LookupResult(key) = heap[x].value

(***************************************************************************)
(* C9, amended.  The same, for a key such that no other key has been       *)
(* looked up since its own last Lookup or Insert: Lookups of other keys    *)
(* make those more recent than the hot key, and the next Insert evicts     *)
(* the hot key.                                                            *)
(***************************************************************************)
C9_OnlyHotKeyStays ==
    \A key \in TestKeys :
        LET x == LastEntry(key)
        IN  (/\ x # 0
             /\ UnitCharges
             /\ shard_[Shard(KeyHash[key])].capacity_ >= 2
             /\ LookedUpAfterEveryInsert(x)
             /\ NoOtherLookupSince(x))
            => LookupResult(key) = heap[x].value

\* the first key inserted is still hit after two more keys were inserted,
\* one of which has been evicted
C9_Witness ==
    /\ Len(heap) = 3
    /\ UnitCharges
    /\ stamp[1] = 2
    /\ NoOtherLookupSince(1)
    /\ shard_[ShardOf(1)].capacity_ >= 2
    /\ LookupResult(heap[1].key_data) = heap[1].value
    /\ evicted # {}

(***************************************************************************)
(* C10.  The entries inserted into the shard of x since x was last         *)
(* inserted or looked up.                                                  *)
(***************************************************************************)
Later(x) == {y \in Entries : y > stamp[x] /\ ShardOf(y) = ShardOf(x)}

\* since x was last touched its key was not inserted again, and the keys
\* inserted since are distinct
Untouched(x) ==
    /\ \A y \in Later(x) : heap[y].key_data # heap[x].key_data
    /\ \A y, z \in Later(x) : heap[y].key_data = heap[z].key_data => y = z

(***************************************************************************)
(* C10.  As claimed: an entry not looked up or inserted again is a miss    *)
(* and destroyed once distinct other keys of its shard have been inserted  *)
(* with a total charge of at least the capacity of the shard.              *)
(***************************************************************************)
C10_UntouchedIsEvicted ==
    \A x \in Entries :
        (/\ Untouched(x)
         /\ ChargeSum(heap, Later(x)) >= shard_[ShardOf(x)].capacity_)
        => (LookupResult(heap[x].key_data) = NoValue /\ Destroyed(x))

(***************************************************************************)
(* C10, amended.  The same, for an entry with a charge of at least 1.      *)
(***************************************************************************)
C10_ChargedUntouchedIsEvicted ==
    \A x \in Entries :
        (/\ heap[x].charge >= 1
         /\ Untouched(x)
         /\ ChargeSum(heap, Later(x)) >= shard_[ShardOf(x)].capacity_)
        => (LookupResult(heap[x].key_data) = NoValue /\ Destroyed(x))

\* an entry evicted by the second of the two Inserts of other keys that
\* followed it
C10_Witness ==
    \E x \in Entries :
        /\ heap[x].charge >= 1
        /\ Untouched(x)
        /\ Cardinality(Later(x)) = 2
        /\ ChargeSum(heap, Later(x)) = shard_[ShardOf(x)].capacity_
        /\ x \in evicted

(***************************************************************************)
(* NewId called from several threads.  A call takes id_mutex_ (MutexLock), *)
(* reads last_id_, stores the incremented value, reads the value to        *)
(* return, and releases the mutex on its way out.                          *)
(***************************************************************************)
\* the calls of NewId begun so far
IdCalls == Len(ids) + Cardinality({t \in Threads : thread[t].pc # "idle"})

\* ++ on the uint64_t last_id_; the wrap at 2^64 is beyond MaxIds calls
Increment(x) == x + 1

\* a thread calls cache->NewId(); the calls returned before are noted
IdCall(t) ==
    /\ thread[t].pc = "idle"
    /\ IdCalls < MaxIds
    /\ thread' = [thread EXCEPT ![t] = [pc |-> "lock", after |-> Len(ids)]]
    /\ UNCHANGED <<last_id_, id_mutex_, ids>>
    /\ UNCHANGED <<cachevars, mutex_, serial, tbl>>

\* MutexLock l(&id_mutex_)
IdLock(t) ==
    /\ thread[t].pc = "lock"
    /\ CanLock(id_mutex_)
    /\ id_mutex_' = t
    /\ thread' = [thread EXCEPT ![t].pc = "load"]
    /\ UNCHANGED <<last_id_, ids>>
    /\ UNCHANGED <<cachevars, mutex_, serial, tbl>>

\* ++(last_id_): the load
IdLoad(t) ==
    /\ thread[t].pc = "load"
    /\ thread' = [thread EXCEPT ![t] =
                     [pc |-> "store", after |-> @.after, tmp |-> last_id_]]
    /\ UNCHANGED <<last_id_, id_mutex_, ids>>
    /\ UNCHANGED <<cachevars, mutex_, serial, tbl>>

\* ++(last_id_): the store
IdStore(t) ==
    /\ thread[t].pc = "store"
    /\ last_id_' = Increment(thread[t].tmp)
    /\ thread' = [thread EXCEPT ![t].pc = "return"]
    /\ UNCHANGED <<id_mutex_, ids>>
    /\ UNCHANGED <<cachevars, mutex_, serial, tbl>>

\* return of the value of last_id_, and ~MutexLock
IdReturn(t) ==
    /\ thread[t].pc = "return"
    /\ ids' = Append(ids, [thread |-> t, value |-> last_id_,
                           after |-> thread[t].after])
    /\ id_mutex_' = 0
    /\ thread' = [thread EXCEPT ![t] = Idle]
    /\ UNCHANGED last_id_
    /\ UNCHANGED <<cachevars, mutex_, serial, tbl>>

IdInit ==
    /\ New(Capacities)
    /\ serial = <<>>
    /\ tbl = <<>>

IdNext ==
    \/ \E t \in Threads : IdCall(t)
    \/ \E t \in Threads : IdLock(t)
    \/ \E t \in Threads : IdLoad(t)
    \/ \E t \in Threads : IdStore(t)
    \/ \E t \in Threads : IdReturn(t)

SpecId == IdInit /\ [][IdNext]_vars

(***************************************************************************)
(* C11.  The first call of NewId to return returns 1; the values returned  *)
(* are pairwise distinct; a call that began after another had returned     *)
(* returns a greater value than that one.                                  *)
(***************************************************************************)
C11_NewIdDistinctIncreasing ==
    /\ ids # <<>> => ids[1].value = 1
    /\ \A i, j \in 1 .. Len(ids) : i # j => ids[i].value # ids[j].value
    /\ \A i, j \in 1 .. Len(ids) :
           j <= ids[i].after => ids[j].value < ids[i].value

\* three calls have returned, of two threads, one of which began before the
\* call returning before it had returned
C11_Witness ==
    /\ Len(ids) >= 3
    /\ \E i, j \in 1 .. Len(ids) : ids[i].thread # ids[j].thread
    /\ \E i \in 2 .. Len(ids) : ids[i].after < i - 1
    /\ \E i \in 2 .. Len(ids) : ids[i].after > 0

(***************************************************************************)
(* Insert, Lookup, Release and Erase called from several threads on the    *)
(* keys of one shard.  Each of the four begins with MutexLock l(&mutex_)   *)
(* and runs its whole body before ~MutexLock.  A call is two steps: it     *)
(* takes the mutex and reads the shard; it writes the shard, releases the  *)
(* mutex and returns.                                                      *)
(***************************************************************************)
\* the body of the call op on the shard state c
Call(c, op) ==
    CASE op.name = "Insert" ->
             Insert(c, op.key, KeyHash[op.key], op.value, op.charge)
      [] op.name = "Lookup" -> Lookup(c, op.key, KeyHash[op.key])
      [] op.name = "Release" -> Release(c, op.handle)
      [] op.name = "Erase" -> Erase(c, op.key, KeyHash[op.key])

\* the shard the call op is routed to
ShardOfCall(op) ==
    IF op.name = "Release" THEN Shard(heap[op.handle].hash)
    ELSE Shard(KeyHash[op.key])

\* the handles the callers hold and those the calls under way will return
Pending ==
    Outstanding
    + Cardinality({t \in Threads :
                       thread[t].pc = "body"
                       /\ thread[t].op.name \in {"Insert", "Lookup"}})

\* the entries allocated and those the calls under way will allocate
Allocating ==
    Len(heap)
    + Cardinality({t \in Threads :
                       thread[t].pc = "body" /\ thread[t].op.name = "Insert"})

\* shard s of the cache of the calls made one at a time
SerialCtx(s) ==
    [heap |-> serial.heap, deleted |-> serial.deleted, ok |-> serial.ok,
     capacity_ |-> serial.shard_[s].capacity_,
     usage_ |-> serial.shard_[s].usage_,
     lru_ |-> serial.shard_[s].lru_, table_ |-> serial.shard_[s].table_,
     ret |-> NULL, evictions |-> <<>>]

\* the cache of the calls made one at a time, after a call has left c
SerialCommit(s, c, got) ==
    [heap |-> c.heap, deleted |-> c.deleted, ok |-> c.ok,
     shard_ |-> [serial.shard_ EXCEPT ![s] =
                    [capacity_ |-> c.capacity_, usage_ |-> c.usage_,
                     lru_ |-> c.lru_, table_ |-> c.table_]],
     ret |-> c.ret, got |-> got]

\* thread t enters the call op: MutexLock l(&mutex_), and the reads of the
\* body
MtBegin(t, op) ==
    LET s == ShardOfCall(op)
    IN  /\ thread[t].pc = "idle"
        /\ CanLock(mutex_[s])
        /\ mutex_' = [mutex_ EXCEPT ![s] = t]
        /\ thread' = [thread EXCEPT ![t] =
                         [pc |-> "body", op |-> op, shard |-> s,
                          snap |-> Ctx(s)]]
        /\ handles' = IF op.name = "Release"
                      THEN [handles EXCEPT ![op.handle] = @ - 1]
                      ELSE handles
        /\ UNCHANGED <<heap, shard_, deleted, ok, latest, touched, stamp,
                       kCacheSize, evicted, last_id_, id_mutex_, ids, serial,
                       tbl>>

\* h = cache->Insert(key, value, charge, deleter) by thread t
MtInsert(t, key, charge) ==
    /\ Allocating < MaxThreadEntries
    /\ Pending < MaxHandles
    /\ MtBegin(t, [name |-> "Insert", key |-> key, charge |-> charge,
                   value |-> FreshValue(Allocating + 1)])

\* h = cache->Lookup(key) by thread t
MtLookup(t, key) ==
    /\ Pending < MaxHandles
    /\ MtBegin(t, [name |-> "Lookup", key |-> key])

\* cache->Release(h) by thread t, for a handle the callers hold
MtRelease(t, e) ==
    /\ handles[e] > 0
    /\ MtBegin(t, [name |-> "Release", handle |-> e])

\* cache->Erase(key) by thread t
MtErase(t, key) == MtBegin(t, [name |-> "Erase", key |-> key])

\* thread t leaves its call: the writes of the body, ~MutexLock, return
MtEnd(t) ==
    /\ thread[t].pc = "body"
    /\ LET op == thread[t].op
           s == thread[t].shard
           c == Call(thread[t].snap, op)
           d == Call(SerialCtx(s), op)
       IN  /\ Commit(s, c)
           /\ serial' = SerialCommit(s, d, c.ret)
           /\ handles' =
                  CASE op.name = "Insert" -> Append(handles, 1)
                    [] op.name = "Lookup" /\ c.ret # NULL ->
                           [handles EXCEPT ![c.ret] = @ + 1]
                    [] OTHER -> handles
    /\ mutex_' = [mutex_ EXCEPT ![thread[t].shard] = 0]
    /\ thread' = [thread EXCEPT ![t] = Idle]
    /\ UNCHANGED <<latest, touched, stamp, kCacheSize, evicted, last_id_,
                   id_mutex_, ids, tbl>>

MtInit ==
    /\ New(Capacities)
    /\ serial = [heap |-> <<>>, deleted |-> <<>>, ok |-> TRUE,
                 shard_ |-> NewCache(kCacheSize)]
    /\ tbl = <<>>

MtNext ==
    \/ \E t \in Threads, key \in PinKeys, charge \in Charges :
           MtInsert(t, key, charge)
    \/ \E t \in Threads, key \in PinKeys : MtLookup(t, key)
    \/ \E t \in Threads, e \in 1 .. Len(heap) : MtRelease(t, e)
    \/ \E t \in Threads, key \in PinKeys : MtErase(t, key)
    \/ \E t \in Threads : MtEnd(t)

SpecMt == MtInit /\ [][MtNext]_vars

(***************************************************************************)
(* C12.  A thread inside the body of Insert, Lookup, Release or Erase      *)
(* holds the mutex of the shard, no other thread is inside a body on that  *)
(* shard, and the shard is as the thread read it; the cache and the value  *)
(* each call returns are those of the same calls made one at a time in     *)
(* the order in which they end.                                            *)
(***************************************************************************)
C12_CallsAreSerialized ==
    /\ \A t \in Threads :
           thread[t].pc = "body" =>
               /\ mutex_[thread[t].shard] = t
               /\ thread[t].snap = Ctx(thread[t].shard)
               /\ \A u \in Threads \ {t} :
                      thread[u].pc = "body" =>
                          thread[u].shard # thread[t].shard
    /\ serial.heap = heap
    /\ serial.deleted = deleted
    /\ serial.ok = ok
    /\ serial.shard_ = shard_
    /\ "ret" \in DOMAIN serial => serial.ret = serial.got

\* a thread is inside a body on an entry that two handles pin, one of them
\* returned to the other thread
C12_Witness ==
    \E t \in Threads :
        /\ thread[t].pc = "body"
        /\ thread[t].op.name = "Release"
        /\ handles[thread[t].op.handle] = 1
        /\ heap[thread[t].op.handle].refs = 3
        /\ "ret" \in DOMAIN serial

(***************************************************************************)
(* The life of a cache: calls on keys of two shards by callers that keep   *)
(* handles, then cache_->Delete(), which runs ~LRUCacheImpl on the shards  *)
(* from the last to the first.                                             *)
(***************************************************************************)
\* "1" and "1001" are keys of shard 8, "2" is a key of shard 5
LifeKeys == {<<49>>, <<49, 48, 48, 49>>, <<50>>}

\* the charges each key is inserted with: 1 for the keys of shard 8, 1 and,
\* above the capacity of a shard, 3 for the key of shard 5
LifeCharges == [key \in LifeKeys |-> IF key = <<50>> THEN {1, 3} ELSE {1}]

\* the cache has not been deleted
Alive == DOMAIN shard_ # {}

\* the loop of ~LRUCacheImpl with the pointer to the next entry read after
\* Unref has freed the entry
RECURSIVE DestroyList_NextAfterUnref(_, _)
DestroyList_NextAfterUnref(c, e) ==
    IF e = LruHead THEN c
    ELSE LET c1 == [c EXCEPT !.ok = c.ok /\ (c.heap[e].refs = 1)]
             c2 == Unref(c1, e)
         IN  DestroyList_NextAfterUnref(c2, c2.heap[e].next)

\* the loop of ~LRUCacheImpl, from entry e on
RECURSIVE DestroyList(_, _)
DestroyList(c, e) ==
    IF e = LruHead THEN c
    ELSE LET next == c.heap[e].next
             c1 == [c EXCEPT !.ok = c.ok /\ (c.heap[e].refs = 1)]
             c2 == Unref(c1, e)
         IN  DestroyList(c2, next)

\* ~ShardedLRUCache: the shards s, s-1, .. 0 destroyed on the memory g
RECURSIVE DeleteFrom(_, _)
DeleteFrom(s, g) ==
    IF s < 0 THEN g
    ELSE LET c == DestroyList([Ctx(s) EXCEPT !.heap = g.heap,
                                             !.deleted = g.deleted,
                                             !.ok = g.ok],
                              shard_[s].lru_.next)
         IN  DeleteFrom(s - 1, [heap |-> c.heap, deleted |-> c.deleted,
                                ok |-> c.ok])

\* what cache_->Delete() leaves of the memory
Delete == DeleteFrom(kNumShards - 1,
                     [heap |-> heap, deleted |-> deleted, ok |-> ok])

\* cache_->Delete(); with a handle outstanding the assert fails, and a
\* build without asserts goes on
DoDelete ==
    /\ Alive
    /\ heap' = Delete.heap
    /\ deleted' = Delete.deleted
    /\ ok' = Delete.ok
    /\ shard_' = <<>>
    /\ UNCHANGED <<handles, latest, touched, stamp, kCacheSize, evicted>>
    /\ UNCHANGED aside

LifeInit ==
    /\ New(Capacities)
    /\ serial = <<>>
    /\ tbl = <<>>

LifeNext ==
    \/ /\ Alive
       /\ Outstanding < MaxLifeHandles
       /\ \E key \in LifeKeys, value \in Values :
              \E charge \in LifeCharges[key] : DoInsert(key, value, charge)
    \/ /\ Alive
       /\ Outstanding < MaxLifeHandles
       /\ \E key \in LifeKeys : DoLookup(key)
    \/ /\ Alive
       /\ \E e \in 1 .. Len(heap) : DoRelease(e)
    \/ /\ Alive
       /\ \E key \in LifeKeys : DoErase(key)
    \/ DoDelete

SpecLife == LifeInit /\ [][LifeNext]_vars

\* the number whose binary digits are the top kNumShardBits bits of hash
TopBits(hash) ==
    CHOOSE s \in Shards :
        /\ s * Pow2(16 - kNumShardBits) <= hash[1]
        /\ hash[1] < (s + 1) * Pow2(16 - kNumShardBits)

\* the chain of next_hash pointers from entry e on, in the memory h
RECURSIVE ChainFrom(_, _, _)
ChainFrom(h, e, fuel) ==
    IF e = NULL \/ fuel = 0 THEN <<>>
    ELSE <<e>> \o ChainFrom(h, h[e].next_hash, fuel - 1)

\* the entries chained in the buckets of the table of shard s
InTable(s) ==
    UNION {SeqToSet(ChainFrom(heap, shard_[s].table_.list_[i], Len(heap))) :
               i \in DOMAIN shard_[s].table_.list_}

(***************************************************************************)
(* C13.  Every key is routed to the shard numbered by the top 4 bits of    *)
(* its hash, by Insert, Lookup and Erase alike.  A step changes one shard  *)
(* at most: it leaves the table, list and usage of the other shards and    *)
(* the entries of the other shards (their reference counts and links) as   *)
(* they are; the entries the changed shard then holds in its table and     *)
(* list are entries of keys routed to it; for a Release or a Lookup hit it *)
(* is the shard of the entry of the handle, for an Insert the shard of the *)
(* new entry.                                                              *)
(***************************************************************************)
C13_OneShardPerKey ==
    [][ Alive' =>
          /\ \A key \in Keys : Shard(KeyHash[key]) = TopBits(KeyHash[key])
          /\ \E s \in Shards :
                 /\ \A t \in Shards \ {s} : shard_'[t] = shard_[t]
                 /\ \A e \in Entries : ShardOf(e) # s => heap'[e] = heap[e]
                 /\ \A e \in 1 .. Len(heap') :
                        e \notin Entries => TopBits(heap'[e].hash) = s
                 /\ \A e \in Entries :
                        handles'[e] # handles[e] => ShardOf(e) = s
                 /\ \A e \in Resident(s)' \cup InTable(s)' :
                        TopBits(heap'[e].hash) = s
    ]_vars

\* two shards hold entries, with different usage, and a handle is held
C13_Witness ==
    /\ Alive
    /\ \E s, t \in Shards :
           /\ s # t
           /\ Resident(s) # {} /\ Resident(t) # {}
           /\ shard_[s].usage_ # shard_[t].usage_
    /\ Outstanding > 0

\* the deleter calls made for entry e
DeleterCalls(e) == Cardinality({i \in 1 .. Len(deleted) : deleted[i].entry = e})

(***************************************************************************)
(* C14.  With every handle released, each entry in a recency list has      *)
(* refs = 1; cache_->Delete() then fails no assert and leaves every entry  *)
(* ever inserted freed, with its deleter called exactly once, the entries  *)
(* of the lists by Delete itself.  This holds for the Delete each state    *)
(* allows and in the states that follow a Delete.                          *)
(***************************************************************************)
C14_DeleteDestroysAllOnce ==
    /\ (Alive /\ Outstanding = 0) =>
           /\ \A s \in Shards : \A e \in Resident(s) :
                  heap[e].refs = 1 /\ DeleterCalls(e) = 0
           /\ Delete.ok
           /\ \A e \in Entries :
                  /\ Delete.heap[e].freed
                  /\ Cardinality({i \in 1 .. Len(Delete.deleted) :
                                      Delete.deleted[i].entry = e}) = 1
    /\ (~Alive /\ Outstanding = 0) =>
           /\ ok
           /\ \A e \in Entries : heap[e].freed /\ DeleterCalls(e) = 1

\* a cache deleted with no handle held, whose Delete has destroyed two
\* entries of one shard and then one of another
C14_Witness ==
    /\ ~Alive
    /\ Outstanding = 0
    /\ \E i \in 1 .. Len(deleted) - 2 :
           /\ \A j \in {i, i + 1, i + 2} :
                  /\ deleted[j].entry \notin evicted
                  /\ latest[deleted[j].key] = deleted[j].value
           /\ Shard(KeyHash[deleted[i].key]) = Shard(KeyHash[deleted[i + 1].key])
           /\ Shard(KeyHash[deleted[i].key]) # Shard(KeyHash[deleted[i + 2].key])

\* charges from none to more than the capacity of a shard
AnyCharges == 0 .. 3

(***************************************************************************)
(* C15.  In every state, whatever entries are pinned, Insert of any key    *)
(* with any charge (0, and up to more than the capacity of the shard)      *)
(* returns, and returns a handle to the entry it has made, not freed,      *)
(* whose Value is the value inserted; its eviction loop runs at most once  *)
(* per entry in the recency list when it starts (the resident entries and  *)
(* the new one) and detaches pinned victims without freeing them.          *)
(***************************************************************************)
C15_InsertAlwaysReturnsHandle ==
    Alive =>
        \A key \in LifeKeys, charge \in AnyCharges :
            LET c == InsertOf(key, charge)
                s == Shard(KeyHash[key])
            IN  /\ c.ret = NextEntry
                /\ c.ok
                /\ ~c.heap[c.ret].freed
                /\ c.heap[c.ret].refs >= 1
                /\ CacheValue(c, c.ret) = FreshValue(NextEntry)
                /\ c.heap[c.ret].charge = charge
                /\ Len(c.evictions)
                       <= Cardinality(Resident(s) \cup {NextEntry})
                /\ \A v \in Victims(c) :
                       /\ v \notin SeqToSet(LruList(c))
                       /\ (v \in Entries /\ handles[v] > 0) => ~c.heap[v].freed

\* an Insert with a charge above the capacity has returned a handle, still
\* held, to an entry that the Insert itself has evicted, and a further
\* Insert would evict two entries
C15_Witness ==
    /\ Alive
    /\ \E e \in Entries :
           /\ heap[e].charge > shard_[ShardOf(e)].capacity_
           /\ handles[e] = 1
           /\ e \in evicted
           /\ ~heap[e].freed
           /\ CacheValue(Ctx(ShardOf(e)), e) = FreshValue(e)
    /\ \E key \in LifeKeys, charge \in AnyCharges :
           Cardinality(Victims(InsertOf(key, charge))) >= 2

(***************************************************************************)
(* C16.  In every state between operations, the entries chained in the     *)
(* table of a shard are the entries of its recency list and no two of them *)
(* have the same key; and an Insert of a key that is present leaves the    *)
(* previous entry in neither the table nor the list, and the new entry in  *)
(* both, or in neither when the same Insert has evicted it.                *)
(***************************************************************************)
\* the entries chained in the buckets of the table of context c
Chained(c) ==
    UNION {SeqToSet(ChainFrom(c.heap, c.table_.list_[i], Len(c.heap))) :
               i \in DOMAIN c.table_.list_}

C16_TableIffList ==
    Alive =>
        /\ \A s \in Shards :
               /\ InTable(s) = Resident(s)
               /\ \A e1, e2 \in InTable(s) :
                      heap[e1].key_data = heap[e2].key_data => e1 = e2
        /\ \A key \in LifeKeys, charge \in AnyCharges :
               LET old == CacheLookup(key).ret
                   c == InsertOf(key, charge)
                   list == SeqToSet(LruList(c))
               IN  /\ Chained(c) = list
                   /\ old # NULL => old \notin Chained(c) \cup list
                   /\ NextEntry \notin Victims(c) => NextEntry \in Chained(c) \cap list
                   /\ NextEntry \in Victims(c) => NextEntry \notin Chained(c) \cup list

\* a key has been inserted twice: its first entry is in neither the table
\* nor the list, its second entry is in both, next to an entry of another
\* key of the same shard
C16_Witness ==
    /\ Alive
    /\ \E e1, e2, e3 \in Entries :
           /\ e1 < e2
           /\ heap[e1].key_data = heap[e2].key_data
           /\ heap[e3].key_data # heap[e2].key_data
           /\ ShardOf(e3) = ShardOf(e2)
           /\ e1 \notin InTable(ShardOf(e1)) \cup Resident(ShardOf(e1))
           /\ {e2, e3} \subseteq InTable(ShardOf(e2)) \cap Resident(ShardOf(e2))

(***************************************************************************)
(* C17.  In every state between operations, the reference count of an      *)
(* entry not yet destroyed is the number of handles to it not yet released *)
(* plus one when the entry is in the table and the recency list of its     *)
(* shard; so it is at least 1; and the entries destroyed are those in      *)
(* neither the table nor the list and without a handle.                    *)
(***************************************************************************)
\* the reference the cache itself holds on entry e
CacheRef(e) ==
    IF e \in InTable(ShardOf(e)) \cap Resident(ShardOf(e)) THEN 1 ELSE 0

C17_RefsAreHandlesPlusResidency ==
    \A e \in Entries :
        /\ ~Destroyed(e) =>
               /\ heap[e].refs = handles[e] + CacheRef(e)
               /\ heap[e].refs >= 1
        /\ Destroyed(e) <=>
               /\ e \notin InTable(ShardOf(e)) \cup Resident(ShardOf(e))
               /\ handles[e] = 0

\* an entry in the cache with two handles, a detached entry with one
\* handle, and a detached entry without handle, which is destroyed
C17_Witness ==
    \E e1, e2, e3 \in Entries :
        /\ CacheRef(e1) = 1 /\ handles[e1] = 1 /\ heap[e1].refs = 2
        /\ CacheRef(e2) = 0 /\ handles[e2] = 1 /\ heap[e2].refs = 1
        /\ CacheRef(e3) = 0 /\ handles[e3] = 0 /\ Destroyed(e3)

(***************************************************************************)
(* C18.  A Lookup that hits adds one to the reference count of the entry   *)
(* it has found and makes it the newest entry of the recency list; the     *)
(* order of the other entries, the table, usage_, the reference counts of  *)
(* the other entries and the destructor calls stay as they were.  A Lookup *)
(* that misses changes nothing.                                            *)
(***************************************************************************)
\* entry x of heap h without its links in the recency list
Unlinked(h, x) == [h[x] EXCEPT !.next = NULL, !.prev = NULL]

C18_LookupHitFrame ==
    \A key \in TestKeys :
        LET s == Shard(KeyHash[key])
            c == CacheLookup(key)
            e == c.ret
        IN  IF e = NULL
            THEN c = Ctx(s)
            ELSE /\ e \in Resident(s)
                 /\ heap[e].key_data = key
                 /\ c.heap[e].refs = heap[e].refs + 1
                 /\ LruList(c) = Append(Without(Recency(s), e), e)
                 /\ c.table_ = shard_[s].table_
                 /\ c.usage_ = shard_[s].usage_
                 /\ c.capacity_ = shard_[s].capacity_
                 /\ c.deleted = deleted
                 /\ c.ok = ok
                 /\ Len(c.heap) = Len(heap)
                 /\ \A x \in Entries :
                        IF x = e
                        THEN [Unlinked(c.heap, x) EXCEPT !.refs = heap[x].refs]
                                 = Unlinked(heap, x)
                        ELSE /\ Unlinked(c.heap, x) = Unlinked(heap, x)
                             /\ x \notin Resident(s) => c.heap[x] = heap[x]

\* three entries in the recency list of a shard, and a Lookup hits the
\* oldest of them, which becomes the newest
C18_Witness ==
    \E key \in TestKeys :
        LET s == Shard(KeyHash[key])
            c == CacheLookup(key)
        IN  /\ c.ret # NULL
            /\ Len(Recency(s)) = 3
            /\ Head(Recency(s)) = c.ret
            /\ LruList(c)[3] = c.ret
            /\ LruList(c)[1] = Recency(s)[2]

(***************************************************************************)
(* The HandleTable taken by itself: a caller holds LRUHandles and calls    *)
(* Insert, Remove and Lookup of one HandleTable; a handle that is not in   *)
(* the table may be inserted again.                                        *)
(***************************************************************************)
Pool == 1 .. MaxTableHandles

\* the handles in the table that have the key of handle h
HandlesOf(h) == {e \in tbl.present : tbl.heap[e].key_data = tbl.heap[h].key_data}

\* table.Insert(h)
TblInsert(h) ==
    /\ h \notin tbl.present
    /\ tbl' = [TableInsert(tbl, h) EXCEPT !.present = (@ \ HandlesOf(h)) \cup {h}]
    /\ UNCHANGED <<cachevars, last_id_, id_mutex_, mutex_, thread, ids, serial>>

\* table.Remove(key, hash), with the key and hash of handle h
TblRemove(h) ==
    /\ tbl' = [TableRemove(tbl, tbl.heap[h].key_data, tbl.heap[h].hash) EXCEPT
                  !.present = @ \ HandlesOf(h)]
    /\ UNCHANGED <<cachevars, last_id_, id_mutex_, mutex_, thread, ids, serial>>

\* table.Lookup(key, hash), with the key and hash of handle h
TblLookup(h) ==
    /\ tbl' = [tbl EXCEPT
                  !.ret = TableLookup(tbl, tbl.heap[h].key_data, tbl.heap[h].hash)]
    /\ UNCHANGED <<cachevars, last_id_, id_mutex_, mutex_, thread, ids, serial>>

TblInit ==
    /\ New(Capacities)
    /\ serial = <<>>
    /\ tbl = NewTable

TblNext ==
    \/ \E h \in Pool : TblInsert(h)
    \/ \E h \in Pool : TblRemove(h)
    \/ \E h \in Pool : TblLookup(h)

SpecTable == TblInit /\ [][TblNext]_vars

\* the chain of bucket i of the table
Chain(c, i) == ChainFrom(c.heap, c.table_.list_[i], Len(c.heap))

\* the number of entries chained in the buckets i .. length_ - 1
RECURSIVE CountFrom(_, _)
CountFrom(c, i) ==
    IF i < c.table_.length_ THEN Len(Chain(c, i)) + CountFrom(c, i + 1) ELSE 0

\* n is a power of two
IsPow2(n) == \E k \in 0 .. n : Pow2(k) = n

(***************************************************************************)
(* C19.  After any calls of Insert and Remove of a HandleTable: elems_ is  *)
(* the number of entries chained in the buckets and is at most length_,    *)
(* which is a power of two and at least 4; the entries chained are the     *)
(* handles inserted and not removed (nor replaced) since, each in the      *)
(* bucket hash & (length_ - 1), where Lookup finds it; no assert has       *)
(* failed; and an Insert, with or without Resize, leaves chained the       *)
(* entries that were chained, without the one it replaces, and the new     *)
(* one.                                                                    *)
(***************************************************************************)
C19_TableCountsAndFinds ==
    /\ tbl.ok
    /\ tbl.table_.elems_ = CountFrom(tbl, 0)
    /\ tbl.table_.elems_ = Cardinality(Chained(tbl))
    /\ tbl.table_.elems_ <= tbl.table_.length_
    /\ tbl.table_.length_ >= 4
    /\ IsPow2(tbl.table_.length_)
    /\ DOMAIN tbl.table_.list_ = 0 .. (tbl.table_.length_ - 1)
    /\ Chained(tbl) = tbl.present
    /\ \A e \in tbl.present :
           LET key == tbl.heap[e].key_data
               hash == tbl.heap[e].hash
           IN  /\ TableLookup(tbl, key, hash) = e
               /\ e \in SeqToSet(Chain(tbl, Bucket(hash, tbl.table_.length_)))
    /\ \A h \in Pool \ tbl.present :
           LET c == TableInsert(tbl, h)
           IN  /\ c.ok
               /\ TableLookup(tbl, tbl.heap[h].key_data, tbl.heap[h].hash) = NULL
                      <=> HandlesOf(h) = {}
               /\ HandlesOf(h) = {c.ret} \ {NULL}
               /\ Chained(c) = (Chained(tbl) \ {c.ret}) \cup {h}
               /\ c.table_.elems_ = Cardinality(Chained(c))

\* the table has been resized to 8 buckets; two entries that shared a
\* bucket of the 4 are in different buckets, two others share a chain;
\* a handle has been replaced by another of its key
C19_Witness ==
    /\ tbl.table_.length_ = 8
    /\ tbl.table_.elems_ = 5
    /\ \E e1, e2 \in tbl.present :
           /\ Bucket(tbl.heap[e1].hash, 4) = Bucket(tbl.heap[e2].hash, 4)
           /\ Bucket(tbl.heap[e1].hash, 8) # Bucket(tbl.heap[e2].hash, 8)
    /\ \E i \in DOMAIN tbl.table_.list_ : Len(Chain(tbl, i)) = 2
    /\ \E e1 \in tbl.present, e2 \in Pool \ tbl.present :
           /\ e1 > e2
           /\ tbl.heap[e1].key_data = tbl.heap[e2].key_data

(***************************************************************************)
(* Callers that insert and keep the handles, as the test EntriesArePinned  *)
(* does, and release them later; they neither look up nor erase.           *)
(***************************************************************************)
PinInit ==
    /\ New(Capacities)
    /\ serial = <<>>
    /\ tbl = <<>>

PinNext ==
    \/ \E key \in PinKeys, value \in Values, charge \in Charges :
           DoInsert(key, value, charge)
    \/ \E e \in 1 .. Len(heap) : DoRelease(e)

SpecPin == PinInit /\ [][PinNext]_vars

(***************************************************************************)
(* C20.  A shard whose usage_ is above its capacity_ has an empty recency  *)
(* list and an empty table, and none of its entries with a handle has been *)
(* destroyed.  When every entry of a shard not yet destroyed has a handle, *)
(* an Insert to the shard still returns a handle to the new entry and      *)
(* leaves usage_ greater by the whole charge, whatever usage_ was.         *)
(***************************************************************************)
\* every entry of shard s that is not destroyed has a handle
AllPinned(s) == \A e \in LiveOf(heap, s) : handles[e] > 0

C20_PinnedUsageUnbounded ==
    /\ \A s \in Shards :
           shard_[s].usage_ > shard_[s].capacity_ =>
               /\ Recency(s) = <<>>
               /\ InTable(s) = {}
               /\ AllPinned(s)
    /\ \A e \in Entries : handles[e] > 0 => ~Destroyed(e) /\ ~heap[e].freed
    /\ \A key \in PinKeys, charge \in Charges :
           LET s == Shard(KeyHash[key])
               c == InsertOf(key, charge)
           IN  AllPinned(s) =>
                  /\ c.ok
                  /\ c.ret = NextEntry
                  /\ ~c.heap[c.ret].freed
                  /\ c.usage_ = shard_[s].usage_ + charge
                  /\ c.deleted = deleted
                  /\ c.usage_ > c.capacity_ => LruList(c) = <<>>

\* two Inserts whose handles are kept have left usage_ of a shard at twice
\* its capacity, and a further Insert would take it to three times
C20_Witness ==
    \E s \in Shards :
        /\ shard_[s].usage_ >= 2 * shard_[s].capacity_
        /\ Cardinality({e \in LiveOf(heap, s) : handles[e] > 0}) = 2
        /\ Recency(s) = <<>>
        /\ \E key \in PinKeys, charge \in Charges :
               /\ Shard(KeyHash[key]) = s
               /\ InsertOf(key, charge).usage_ >= 3 * shard_[s].capacity_

====
